---- MODULE Spec2Model ----
(***************************************************************************)
(* Model of the S3 storage wrapper (SimpleStorageService) and of the model *)
(* registry adapter (Proj1Estimator) built on it.                          *)
(*                                                                         *)
(* The storage backend (boto3 / S3), the local file system and the opaque  *)
(* prediction model are the environment: every call into them has its      *)
(* outcome drawn with \E from the outcomes the call can have.              *)
(***************************************************************************)
EXTENDS Integers, Sequences, FiniteSets, TLC

(* ------------------------------ bounds -------------------------------- *)
\* predict() calls counted per adapter before the counters stop growing
MaxPredicts == 3
\* threads calling predict() on the one adapter in the concurrent run
NThreads == 2

(* ------------------------------ values -------------------------------- *)
None == "None"
Absent == "Absent"
NoKey == <<>>

\* Object keys are strings, modelled as sequences of characters so that
\* Prefix= filtering and the "/" suffix of a folder marker are computed.
KeyM == <<"m">>
KeyMSlash == <<"m", "/">>
KeyD == <<"d">>
KeyDSlash == <<"d", "/">>
Keys == {KeyM, KeyMSlash, KeyD, KeyDSlash}
FolderNames == {KeyM, KeyD}
UploadKeys == {KeyM, KeyD}

\* One bucket: a bucket name is only ever passed through to the backend, and
\* no method reads or writes two buckets.
Buckets == {"b1"}
Paths == {"f1", "f2"}

\* What an object body / local file holds: a pickled model, a pickled
\* None, CSV text, or nothing (a zero-byte folder marker).
Models == {"M1", "M2"}
Blobs == Models \cup {"PNone", "csv", "empty"}

Threads == 1..NThreads

VARIABLES
    s3,            \* [Buckets -> [Keys -> Blobs \cup {Absent}]]: the backend
    local,         \* [Paths -> Blobs \cup {Absent}]: the local file system
    loaded_model,  \* Proj1Estimator.loaded_model: None or a model
    last,          \* record of the last completed call (observation only)
    nPredicts,     \* predict() calls made on the adapter
    pLoads,        \* load_model() calls made from inside predict()
    pGets,         \* object bodies fetched from inside predict()
    pDeser,        \* pickle.loads calls made from inside predict()
    firstLoaded,   \* "unset", or whether the first predict() left a model cached
    pc,            \* concurrent run: position of each thread inside predict()
    tmp            \* concurrent run: what each thread saw at the check, and its
                   \* local result of load_model()

vars == <<s3, local, loaded_model, last, nPredicts, pLoads, pGets, pDeser,
          firstLoaded, pc, tmp>>

(* --------------------------- configuration ---------------------------- *)
\* Proj1Estimator.__init__
bucket_name == "b1"
model_path == KeyM

(* ------------------------------ helpers ------------------------------- *)
IsPrefix(p, k) == Len(p) <= Len(k) /\ SubSeq(k, 1, Len(p)) = p

\* All orderings of a finite set, as sequences without repetition.
RECURSIVE Perms(_)
Perms(S) ==
    IF S = {} THEN {<<>>}
    ELSE UNION {{<<x>> \o q : q \in Perms(S \ {x})} : x \in S}

\* bucket.objects.filter(Prefix=p): the keys present under the prefix.
Matching(store, b, p) == {k \in Keys : store[b][k] # Absent /\ IsPrefix(p, k)}

\* What the backend may answer to a listing: a failure, or the matching
\* summaries in an order of the backend's choosing.
ListOutcomes(store, b, p) ==
    {[ok |-> FALSE, listing |-> <<>>]}
    \cup {[ok |-> TRUE, listing |-> q] : q \in Perms(Matching(store, b, p))}

\* Effects of one call on the environment, counted per call.
NoEff == [lists |-> 0, heads |-> 0, gets |-> 0, deser |-> 0, puts |-> 0,
          uploads |-> 0, removes |-> 0]

NoCall == [op |-> "init", bucket |-> "", arg |-> NoKey, path |-> "",
           remove |-> FALSE, status |-> "ok", listing |-> <<>>,
           key |-> NoKey, value |-> None, eff |-> NoEff,
           was_loaded |-> None, file_before |-> Absent, sent |-> FALSE,
           listed |-> FALSE, head |-> "-", put |-> "-", repeat |-> FALSE,
           prev_status |-> "ok", prev_head |-> "-"]

(* ----------------------- SimpleStorageService ------------------------- *)
\* s3_key_path_available
s3_key_path_available(lo) ==
    IF ~lo.ok THEN [status |-> "BackendError", value |-> FALSE]
    ELSE [status |-> "ok", value |-> Len(lo.listing) > 0]

\* Variant of get_file_object that takes the last summary, not the first.
get_file_object_last(lo) ==
    IF ~lo.ok THEN [status |-> "BackendError", key |-> NoKey]
    ELSE IF lo.listing = <<>> THEN [status |-> "NotFound", key |-> NoKey]
    ELSE [status |-> "ok", key |-> lo.listing[Len(lo.listing)]]

\* Variant of get_file_object without the "if not summaries" check: indexing
\* the empty list raises IndexError.
get_file_object_unchecked(lo) ==
    IF ~lo.ok THEN [status |-> "BackendError", key |-> NoKey]
    ELSE IF lo.listing = <<>> THEN [status |-> "IndexError", key |-> NoKey]
    ELSE [status |-> "ok", key |-> lo.listing[1]]

\* get_file_object: first summary of the listing, as the backend gave it
get_file_object(lo) ==
    IF ~lo.ok THEN [status |-> "BackendError", key |-> NoKey]
    ELSE IF lo.listing = <<>> THEN [status |-> "NotFound", key |-> NoKey]
    ELSE [status |-> "ok", key |-> lo.listing[1]]

\* The bytes -> text step of read_object (bytes.decode()): a pickle stream
\* is not valid UTF-8, CSV text and the empty body are.
decode(body) ==
    IF body \in Models \cup {"PNone"}
    THEN [status |-> "DecodeError", body |-> Absent]
    ELSE [status |-> "ok", body |-> body]

\* read_object: one full-object fetch (go is the backend's answer to .get())
read_object(store, b, key, dec, go) ==
    IF go # "ok" THEN [status |-> "BackendError", body |-> Absent]
    ELSE IF dec THEN decode(store[b][key])
    ELSE [status |-> "ok", body |-> store[b][key]]

\* pickle.loads: a pickled model gives the model, a pickled None gives None,
\* anything else is not a pickle stream.
pickle_loads(body) ==
    IF body \in Models THEN [status |-> "ok", value |-> body]
    ELSE IF body = "PNone" THEN [status |-> "ok", value |-> None]
    ELSE [status |-> "DeserializationError", value |-> None]

\* pandas.read_csv on the decoded text: an empty document has no header row.
pandas_read_csv(text) ==
    IF text = "csv" THEN [status |-> "ok", value |-> "table"]
    ELSE [status |-> "ParseError", value |-> None]

\* model_dir + "/" + model_name if model_dir else model_name
model_file(model_name, model_dir) ==
    IF model_dir # None THEN model_dir \o <<"/">> \o model_name ELSE model_name

\* SimpleStorageService.load_model, given the backend's answers to the
\* listing (lo) and to the body fetch (go)
s3_load_model(store, b, lo, go) ==
    LET fo == get_file_object(lo) IN
    IF fo.status # "ok"
    THEN [status |-> fo.status, value |-> None, key |-> NoKey,
          gets |-> 0, deser |-> 0]
    ELSE LET ro == read_object(store, b, fo.key, FALSE, go) IN
         IF ro.status # "ok"
         THEN [status |-> ro.status, value |-> None, key |-> fo.key,
               gets |-> 1, deser |-> 0]
         ELSE LET pk == pickle_loads(ro.body) IN
              [status |-> pk.status, value |-> pk.value, key |-> fo.key,
               gets |-> 1, deser |-> 1]

\* get_df_from_object: read as text, wrap as a stream, parse
get_df_from_object(store, b, key, go) ==
    LET ro == read_object(store, b, key, TRUE, go) IN
    IF ro.status # "ok" THEN [status |-> ro.status, value |-> None]
    ELSE pandas_read_csv(ro.body)

\* SimpleStorageService.read_csv
read_csv(store, b, lo, go) ==
    LET fo == get_file_object(lo) IN
    IF fo.status # "ok"
    THEN [status |-> fo.status, value |-> None, key |-> NoKey, gets |-> 0]
    ELSE LET df == get_df_from_object(store, b, fo.key, go) IN
         [status |-> df.status, value |-> df.value, key |-> fo.key, gets |-> 1]

\* What Object(bucket, key).load() (a HEAD request) may answer: success when
\* the exact key exists, ClientError 404 when it does not, and in either
\* case a ClientError with another code or an error that is no ClientError.
HeadOutcomes(store, b, key) ==
    (IF key \in Keys /\ store[b][key] # Absent THEN {"ok"} ELSE {"404"})
    \cup {"403", "conn"}

\* The key create_folder writes: f"{folder_name}/"
marker_key(folder_name) == folder_name \o <<"/">>

\* SimpleStorageService.create_folder, given the answers to the HEAD (ho)
\* and to put_object (po)
create_folder(store, b, folder_name, ho, po) ==
    IF ho = "ok"
    THEN [status |-> "ok", store |-> store, puts |-> 0]
    ELSE IF ho \in {"404", "403"}
    THEN \* except ClientError as e:
         IF ho = "404"
         THEN IF po = "ok"
              THEN [status |-> "ok", puts |-> 1,
                    store |-> [store EXCEPT ![b][marker_key(folder_name)] = "empty"]]
              ELSE [status |-> "BackendError", store |-> store, puts |-> 1]
         ELSE [status |-> "ok", store |-> store, puts |-> 0]
    ELSE [status |-> "BackendError", store |-> store, puts |-> 0]

\* Variant of upload_file that removes the local file whether or not the
\* transfer succeeded (os.remove in a finally block).
upload_file_remove_always(store, loc, from_filename, to_filename, b, remove, uo, ro) ==
    LET sent == loc[from_filename] # Absent /\ uo = "ok"
        st == IF sent THEN [store EXCEPT ![b][to_filename] = loc[from_filename]]
              ELSE store
        lc == IF remove THEN [loc EXCEPT ![from_filename] = Absent] ELSE loc
    IN [status |-> IF sent THEN "ok" ELSE "BackendError", store |-> st,
        loc |-> lc, uploads |-> 1, removes |-> IF remove THEN 1 ELSE 0]

\* SimpleStorageService.upload_file, given the answers to the transfer (uo)
\* and to os.remove (ro)
upload_file(store, loc, from_filename, to_filename, b, remove, uo, ro) ==
    IF loc[from_filename] = Absent
    THEN [status |-> "LocalIOError", store |-> store, loc |-> loc,
          uploads |-> 1, removes |-> 0]
    ELSE IF uo # "ok"
    THEN [status |-> "BackendError", store |-> store, loc |-> loc,
          uploads |-> 1, removes |-> 0]
    ELSE LET st == [store EXCEPT ![b][to_filename] = loc[from_filename]] IN
         IF ~remove
         THEN [status |-> "ok", store |-> st, loc |-> loc,
               uploads |-> 1, removes |-> 0]
         ELSE IF ro = "ok"
         THEN [status |-> "ok", store |-> st,
               loc |-> [loc EXCEPT ![from_filename] = Absent],
               uploads |-> 1, removes |-> 1]
         ELSE [status |-> "LocalIOError", store |-> st, loc |-> loc,
               uploads |-> 1, removes |-> 1]

(* --------------------------- Proj1Estimator --------------------------- *)
\* Proj1Estimator.is_model_present
is_model_present(lo) == s3_key_path_available(lo)

\* Proj1Estimator.load_model: always goes to storage; reads and writes no
\* field of the adapter other than bucket_name and model_path
load_model(store, lo, go) == s3_load_model(store, bucket_name, lo, go)

\* Proj1Estimator.save_model
save_model(store, loc, from_file, remove, uo, ro) ==
    upload_file(store, loc, from_file, model_path, bucket_name, remove, uo, ro)

\* Variant of the check that never trusts the cache.
needs_load_always(lm) == TRUE

\* The check of predict(): if self.loaded_model is None
needs_load(lm) == lm = None

\* The opaque model's predict capability; calling it on None raises.
model_predict(lm, mo) ==
    IF lm = None THEN "AttributeError"
    ELSE IF mo = "ok" THEN "ok" ELSE "PredictError"

\* Variant of predict that drops the cached model when the model's own
\* predict fails.
predict_reset_on_error(store, lm, lo, go, mo) ==
    IF lm = None
    THEN LET r == s3_load_model(store, bucket_name, lo, go) IN
         IF r.status # "ok"
         THEN [status |-> r.status, lm |-> lm, loads |-> 1,
               gets |-> r.gets, deser |-> r.deser, lists |-> 1]
         ELSE [status |-> model_predict(r.value, mo), lm |-> r.value,
               loads |-> 1, gets |-> r.gets, deser |-> r.deser, lists |-> 1]
    ELSE [status |-> model_predict(lm, mo),
          lm |-> IF model_predict(lm, mo) = "ok" THEN lm ELSE None,
          loads |-> 0, gets |-> 0, deser |-> 0, lists |-> 0]

\* Proj1Estimator.predict as one call: the field after the call, the
\* call's status and what it did to storage
predict(store, lm, lo, go, mo) ==
    IF needs_load(lm)
    THEN LET r == load_model(store, lo, go) IN
         IF r.status # "ok"
         THEN [status |-> r.status, lm |-> lm, loads |-> 1,
               gets |-> r.gets, deser |-> r.deser, lists |-> 1]
         ELSE [status |-> model_predict(r.value, mo), lm |-> r.value,
               loads |-> 1, gets |-> r.gets, deser |-> r.deser, lists |-> 1]
    ELSE [status |-> model_predict(lm, mo), lm |-> lm, loads |-> 0,
          gets |-> 0, deser |-> 0, lists |-> 0]

(* ------------------------------- state -------------------------------- *)
InitStores ==
    {[b \in Buckets |->
        [k \in Keys |-> IF k = KeyM THEN m
                        ELSE IF k = KeyD THEN d
                        ELSE IF k = KeyMSlash THEN ms
                        ELSE Absent]] :
        m \in {Absent, "M1", "PNone", "csv"}, d \in {Absent, "csv"},
        ms \in {Absent, "empty"}}

InitLocal == [p \in Paths |-> IF p = "f1" THEN "M2" ELSE "csv"]

Init ==
    /\ s3 \in InitStores
    /\ local = InitLocal
    /\ loaded_model = None
    /\ last = NoCall
    /\ nPredicts = 0
    /\ pLoads = 0
    /\ pGets = 0
    /\ pDeser = 0
    /\ firstLoaded = "unset"
    /\ pc = [t \in Threads |-> "idle"]
    /\ tmp = [t \in Threads |-> [saw_none |-> FALSE, value |-> None]]

Counters == <<nPredicts, pLoads, pGets, pDeser, firstLoaded>>
Conc == <<pc, tmp>>

(* ------------------------ calls on the service ------------------------ *)
GetFileObject ==
    \E b \in Buckets, filename \in Keys :
    \E lo \in ListOutcomes(s3, b, filename) :
        LET r == get_file_object(lo) IN
        /\ last' = [NoCall EXCEPT !.op = "get_file_object", !.bucket = b,
                       !.arg = filename, !.status = r.status,
                       !.listing = lo.listing, !.listed = lo.ok, !.key = r.key,
                       !.eff = [NoEff EXCEPT !.lists = 1]]
        /\ UNCHANGED <<s3, local, loaded_model, Counters, Conc>>

ReadCsv ==
    \E b \in Buckets, filename \in Keys, go \in {"ok", "err"} :
    \E lo \in ListOutcomes(s3, b, filename) :
        LET r == read_csv(s3, b, lo, go) IN
        /\ last' = [NoCall EXCEPT !.op = "read_csv", !.bucket = b,
                       !.arg = filename, !.status = r.status,
                       !.listing = lo.listing, !.listed = lo.ok, !.key = r.key,
                       !.value = r.value,
                       !.eff = [NoEff EXCEPT !.lists = 1, !.gets = r.gets]]
        /\ UNCHANGED <<s3, local, loaded_model, Counters, Conc>>

CreateFolder ==
    \E b \in Buckets, folder_name \in FolderNames :
    \E ho \in HeadOutcomes(s3, b, folder_name) :
    \E po \in IF ho = "404" THEN {"ok", "err"} ELSE {"ok"} :
        LET r == create_folder(s3, b, folder_name, ho, po) IN
        /\ s3' = r.store
        /\ last' = [NoCall EXCEPT !.op = "create_folder", !.bucket = b,
                       !.arg = folder_name, !.status = r.status,
                       !.head = ho,
                       !.put = IF ho = "404" THEN po ELSE "-",
                       !.eff = [NoEff EXCEPT !.heads = 1, !.puts = r.puts],
                       !.repeat = (/\ last.op = "create_folder"
                                   /\ last.bucket = b
                                   /\ last.arg = folder_name),
                       !.prev_status = last.status,
                       !.prev_head = last.head]
        /\ UNCHANGED <<local, loaded_model, Counters, Conc>>

UploadFile ==
    \E b \in Buckets, from_filename \in Paths, to_filename \in UploadKeys,
       remove \in BOOLEAN, uo \in {"ok", "err"} :
    \E ro \in IF remove /\ uo = "ok" THEN {"ok", "err"} ELSE {"ok"} :
        LET r == upload_file(s3, local, from_filename, to_filename, b,
                             remove, uo, ro) IN
        /\ s3' = r.store
        /\ local' = r.loc
        /\ last' = [NoCall EXCEPT !.op = "upload_file", !.bucket = b,
                       !.arg = to_filename, !.path = from_filename,
                       !.remove = remove, !.status = r.status,
                       !.file_before = local[from_filename],
                       !.sent = (local[from_filename] # Absent /\ uo = "ok"),
                       !.eff = [NoEff EXCEPT !.uploads = r.uploads,
                                             !.removes = r.removes]]
        /\ UNCHANGED <<loaded_model, Counters, Conc>>

(* ------------------------ calls on the adapter ------------------------ *)
IsModelPresent ==
    \E key \in Keys :
    \E lo \in ListOutcomes(s3, bucket_name, key) :
        LET r == is_model_present(lo) IN
        /\ last' = [NoCall EXCEPT !.op = "is_model_present",
                       !.bucket = bucket_name, !.arg = key,
                       !.status = r.status, !.listing = lo.listing, !.listed = lo.ok,
                       !.value = r.value, !.was_loaded = loaded_model,
                       !.eff = [NoEff EXCEPT !.lists = 1]]
        /\ UNCHANGED <<s3, local, loaded_model, Counters, Conc>>

\* Variant of load_model that memoizes its result in the adapter.
LoadModelCaching ==
    \E go \in {"ok", "err"} :
    \E lo \in ListOutcomes(s3, bucket_name, model_file(model_path, None)) :
        LET r == s3_load_model(s3, bucket_name, lo, go) IN
        /\ loaded_model' = IF r.status = "ok" THEN r.value ELSE loaded_model
        /\ last' = [NoCall EXCEPT !.op = "load_model",
                       !.bucket = bucket_name, !.arg = model_path,
                       !.status = r.status, !.listing = lo.listing,
                       !.listed = lo.ok, !.key = r.key, !.value = r.value,
                       !.was_loaded = loaded_model,
                       !.eff = [NoEff EXCEPT !.lists = 1, !.gets = r.gets,
                                             !.deser = r.deser]]
        /\ UNCHANGED <<s3, local, Counters, Conc>>

LoadModel ==
    \E go \in {"ok", "err"} :
    \E lo \in ListOutcomes(s3, bucket_name, model_file(model_path, None)) :
        LET r == load_model(s3, lo, go) IN
        /\ last' = [NoCall EXCEPT !.op = "load_model",
                       !.bucket = bucket_name, !.arg = model_path,
                       !.status = r.status, !.listing = lo.listing, !.listed = lo.ok,
                       !.key = r.key, !.value = r.value,
                       !.was_loaded = loaded_model,
                       !.eff = [NoEff EXCEPT !.lists = 1, !.gets = r.gets,
                                             !.deser = r.deser]]
        /\ UNCHANGED <<s3, local, loaded_model, Counters, Conc>>

\* Variant of save_model that invalidates the cache after a successful upload.
SaveModelInvalidating ==
    \E from_file \in Paths, remove \in BOOLEAN, uo \in {"ok", "err"} :
    \E ro \in IF remove /\ uo = "ok" THEN {"ok", "err"} ELSE {"ok"} :
        LET r == upload_file(s3, local, from_file, model_path, bucket_name,
                             remove, uo, ro) IN
        /\ s3' = r.store
        /\ local' = r.loc
        /\ loaded_model' = IF r.status = "ok" THEN None ELSE loaded_model
        /\ last' = [NoCall EXCEPT !.op = "save_model",
                       !.bucket = bucket_name, !.arg = model_path,
                       !.path = from_file, !.remove = remove,
                       !.status = r.status,
                       !.file_before = local[from_file],
                       !.sent = (local[from_file] # Absent /\ uo = "ok"),
                       !.was_loaded = loaded_model,
                       !.eff = [NoEff EXCEPT !.uploads = r.uploads,
                                             !.removes = r.removes]]
        /\ UNCHANGED <<Counters, Conc>>

SaveModel ==
    \E from_file \in Paths, remove \in BOOLEAN, uo \in {"ok", "err"} :
    \E ro \in IF remove /\ uo = "ok" THEN {"ok", "err"} ELSE {"ok"} :
        LET r == save_model(s3, local, from_file, remove, uo, ro) IN
        /\ s3' = r.store
        /\ local' = r.loc
        /\ last' = [NoCall EXCEPT !.op = "save_model",
                       !.bucket = bucket_name, !.arg = model_path,
                       !.path = from_file, !.remove = remove,
                       !.status = r.status,
                       !.file_before = local[from_file],
                       !.sent = (local[from_file] # Absent /\ uo = "ok"),
                       !.was_loaded = loaded_model,
                       !.eff = [NoEff EXCEPT !.uploads = r.uploads,
                                             !.removes = r.removes]]
        /\ UNCHANGED <<loaded_model, Counters, Conc>>

Predict ==
    /\ nPredicts < MaxPredicts
    /\ \E go \in {"ok", "err"}, mo \in {"ok", "err"} :
       \E lo \in ListOutcomes(s3, bucket_name, model_file(model_path, None)) :
        LET r == predict(s3, loaded_model, lo, go, mo) IN
        /\ loaded_model' = r.lm
        /\ nPredicts' = nPredicts + 1
        /\ pLoads' = pLoads + r.loads
        /\ pGets' = pGets + r.gets
        /\ pDeser' = pDeser + r.deser
        /\ firstLoaded' = IF nPredicts = 0 THEN r.lm # None ELSE firstLoaded
        /\ last' = [NoCall EXCEPT !.op = "predict",
                       !.bucket = bucket_name, !.arg = model_path,
                       !.status = r.status, !.value = r.lm,
                       !.was_loaded = loaded_model,
                       !.eff = [NoEff EXCEPT !.lists = r.lists,
                                  !.gets = r.gets, !.deser = r.deser]]
        /\ UNCHANGED <<s3, local, Conc>>

\* Calls a client makes on the adapter, in any order.
Next ==
    \/ IsModelPresent
    \/ LoadModel
    \/ SaveModel
    \/ Predict

Spec == Init /\ [][Next]_vars

\* Calls a client makes on the storage service, in any order; the adapter's
\* two read-only calls go through the same service.
NextStorage ==
    \/ GetFileObject
    \/ ReadCsv
    \/ CreateFolder
    \/ UploadFile
    \/ IsModelPresent
    \/ LoadModel

SpecStorage == Init /\ [][NextStorage]_vars

(* ------------- predict() called from several threads at once ---------- *)
\* Each thread calls predict() once on the one adapter; a step is one read
\* or write of self.loaded_model, or the load_model() call in between.

\* if self.loaded_model is None
PredictCheck(t) ==
    /\ pc[t] = "idle"
    /\ nPredicts' = nPredicts + 1
    /\ tmp' = [tmp EXCEPT ![t].saw_none = needs_load(loaded_model)]
    /\ pc' = [pc EXCEPT ![t] = IF needs_load(loaded_model) THEN "loading"
                                ELSE "run"]
    /\ UNCHANGED <<s3, local, loaded_model, last, pLoads, pGets, pDeser,
                   firstLoaded>>

\* Variant of the load step with a one-time-initialization guard: under a
\* lock the field is checked again and a model already cached is reused.
PredictLoadGuarded(t) ==
    /\ pc[t] = "loading"
    /\ \E go \in {"ok", "err"} :
       \E lo \in ListOutcomes(s3, bucket_name, model_file(model_path, None)) :
        LET r == s3_load_model(s3, bucket_name, lo, go) IN
        IF loaded_model # None
        THEN /\ tmp' = [tmp EXCEPT ![t].value = loaded_model]
             /\ pc' = [pc EXCEPT ![t] = "store"]
             /\ UNCHANGED <<pLoads, pGets, pDeser>>
        ELSE /\ pLoads' = pLoads + 1
             /\ pGets' = pGets + r.gets
             /\ pDeser' = pDeser + r.deser
             /\ tmp' = [tmp EXCEPT ![t].value = r.value]
             /\ pc' = [pc EXCEPT ![t] = IF r.status = "ok" THEN "store"
                                        ELSE "failed"]
    /\ UNCHANGED <<s3, local, loaded_model, last, nPredicts, firstLoaded>>

\* self.load_model(): the right-hand side of the assignment
PredictLoad(t) ==
    /\ pc[t] = "loading"
    /\ \E go \in {"ok", "err"} :
       \E lo \in ListOutcomes(s3, bucket_name, model_file(model_path, None)) :
        LET r == load_model(s3, lo, go) IN
        /\ pLoads' = pLoads + 1
        /\ pGets' = pGets + r.gets
        /\ pDeser' = pDeser + r.deser
        /\ tmp' = [tmp EXCEPT ![t].value = r.value]
        /\ pc' = [pc EXCEPT ![t] = IF r.status = "ok" THEN "store" ELSE "failed"]
    /\ UNCHANGED <<s3, local, loaded_model, last, nPredicts, firstLoaded>>

\* self.loaded_model = <the model just loaded>
PredictStore(t) ==
    /\ pc[t] = "store"
    /\ loaded_model' = tmp[t].value
    /\ pc' = [pc EXCEPT ![t] = "run"]
    /\ UNCHANGED <<s3, local, last, Counters, tmp>>

\* self.loaded_model.predict(dataframe=dataframe)
PredictRun(t) ==
    /\ pc[t] = "run"
    /\ \E mo \in {"ok", "err"} :
        pc' = [pc EXCEPT ![t] = IF model_predict(loaded_model, mo) = "ok"
                                 THEN "done" ELSE "failed"]
    /\ UNCHANGED <<s3, local, loaded_model, last, Counters, tmp>>

\* Another client publishes a model while the threads run.
Publish ==
    /\ \E from_file \in Paths, uo \in {"ok", "err"} :
        LET r == save_model(s3, local, from_file, FALSE, uo, "ok") IN
        /\ s3' = r.store
        /\ local' = r.loc
    /\ UNCHANGED <<loaded_model, last, Counters, Conc>>

NextConc ==
    \/ \E t \in Threads : PredictCheck(t)
    \/ \E t \in Threads : PredictLoad(t)
    \/ \E t \in Threads : PredictStore(t)
    \/ \E t \in Threads : PredictRun(t)
    \/ Publish

SpecConc == Init /\ [][NextConc]_vars

(* ============================== claims ================================ *)
Loaded == loaded_model # None
RemoteModel == s3[bucket_name][model_path]

\* C1 as stated: from the second predict() call on, exactly one load, one
\* object fetch and one deserialization have been made by predict(),
\* whatever the first call's load did.
C1_ExactlyOneLoadAlways ==
    nPredicts >= 2 => (pLoads = 1 /\ pGets = 1 /\ pDeser = 1)

\* C1 amended: when the first predict() call's load yields a model, every
\* later state has exactly one load, one fetch and one deserialization made
\* by predict() and the adapter is Loaded; when it does not, the adapter was
\* left Unloaded and the second predict() call loads again.
C1_OneLoadOnceLoaded ==
    /\ (nPredicts >= 1 /\ firstLoaded = TRUE) =>
           (pLoads = 1 /\ pGets = 1 /\ pDeser = 1 /\ Loaded)
    /\ (nPredicts >= 2 /\ firstLoaded = FALSE) => pLoads >= 2

C1_Witness ==
    /\ nPredicts >= 2
    /\ firstLoaded = TRUE
    /\ pLoads = 1
    /\ last.op = "predict"
    /\ last.status = "ok"

\* C2 as stated: load() on an Unloaded adapter that succeeds leaves the
\* adapter Loaded with the returned model cached, and load() on a Loaded
\* adapter makes no storage access.
C2_LoadMemoized ==
    last.op = "load_model" =>
        IF last.was_loaded = None
        THEN (last.status = "ok" /\ last.value # None) =>
                 loaded_model = last.value
        ELSE last.eff.lists = 0 /\ last.eff.gets = 0

\* C2 amended: load_model() lists the model key on every call, Loaded or
\* not, fetches and deserializes once whenever it succeeds, and leaves the
\* cached field as it was; predict() is what caches: on an Unloaded adapter
\* it keeps the model its load returned, on a Loaded one it makes no storage
\* access.
C2_LoadNeverCaches ==
    /\ last.op = "load_model" =>
        /\ loaded_model = last.was_loaded
        /\ last.eff.lists = 1
        /\ last.status = "ok" =>
               (last.eff.gets = 1 /\ last.eff.deser = 1
                /\ pickle_loads(s3[bucket_name][last.key]).value = last.value)
    /\ last.op = "predict" =>
        IF last.was_loaded = None
        THEN /\ last.eff.lists = 1
             /\ last.status \in {"ok", "PredictError"} =>
                    (Loaded /\ loaded_model = pickle_loads(RemoteModel).value)
        ELSE last.eff = NoEff /\ loaded_model = last.was_loaded

C2_Witness ==
    /\ last.op = "load_model"
    /\ last.status = "ok"
    /\ last.was_loaded \in Models
    /\ last.value \in Models
    /\ last.value # loaded_model
    /\ last.eff.gets = 1

\* Calls of create_folder in which the backend answered the HEAD request
\* truthfully (the key exists, or 404) and no write failed.
GenuineHead(h) == h \in {"ok", "404"}

\* C3 as stated: after create_folder(B, K) has been called twice in a row,
\* with no backend fault in either call, the marker exists at K + "/" and the
\* second call made no put_object.
C3_CreateFolderIdempotent ==
    (/\ last.op = "create_folder"
     /\ last.repeat
     /\ last.status = "ok" /\ last.prev_status = "ok"
     /\ GenuineHead(last.head) /\ GenuineHead(last.prev_head)) =>
        /\ s3[last.bucket][marker_key(last.arg)] # Absent
        /\ last.eff.puts = 0

\* C4 as stated: in create_folder a failure of the existence check other
\* than "not found", and a failure of the marker write, end the call with an
\* error.
C4_OnlyNotFoundIsSwallowed ==
    last.op = "create_folder" =>
        /\ last.head \in {"403", "conn"} => last.status # "ok"
        /\ last.put = "err" => last.status # "ok"

\* C5: after upload_file with remove=True, a call that succeeded leaves no
\* file at the local path, and a call whose transfer failed leaves the local
\* file exactly as it was and ends with an error.
C5_UploadThenDelete ==
    (last.op = "upload_file" /\ last.remove) =>
        /\ last.status = "ok" => local[last.path] = Absent
        /\ ~last.sent =>
               (local[last.path] = last.file_before /\ last.status # "ok"
                /\ last.eff.removes = 0)

C5_Witness ==
    /\ last.op = "upload_file"
    /\ last.remove
    /\ ~last.sent
    /\ last.file_before # Absent
    /\ local[last.path] = last.file_before

\* C6: whenever the backend's listing is non-empty, get_file_object succeeds
\* with the key of the listing's first element, in the backend's order.
C6_ResolveTakesFirstListed ==
    (last.op = "get_file_object" /\ last.listing # <<>>) =>
        (last.status = "ok" /\ last.key = last.listing[1])

C6_Witness ==
    /\ last.op = "get_file_object"
    /\ last.listing = <<KeyMSlash, KeyM>>
    /\ last.key = KeyMSlash

\* C7: whenever the backend answers the listing with no entry,
\* get_file_object, load_model and read_csv end with NotFound, return no
\* handle and no value, and fetch and deserialize nothing.
C7_EmptyListingIsNotFound ==
    (/\ last.op \in {"get_file_object", "load_model", "read_csv"}
     /\ last.listed
     /\ last.listing = <<>>) =>
        /\ last.status = "NotFound"
        /\ last.key = NoKey
        /\ last.value = None
        /\ last.eff.gets = 0
        /\ last.eff.deser = 0

C7_Witness ==
    /\ last.op = "load_model"
    /\ last.listed
    /\ last.listing = <<>>
    /\ last.status = "NotFound"
    /\ \E k \in Keys : s3[last.bucket][k] # Absent

\* C8: save_model leaves the cached model as it was, Loaded or not, success
\* or failure, and a successful save puts the local file's content at the
\* adapter's model key.
C8_SaveKeepsCache ==
    last.op = "save_model" =>
        /\ loaded_model = last.was_loaded
        /\ last.status = "ok" => RemoteModel = last.file_before
        /\ last.sent => RemoteModel = last.file_before

C8_Witness ==
    /\ last.op = "save_model"
    /\ last.status = "ok"
    /\ Loaded
    /\ RemoteModel \in Models
    /\ RemoteModel # loaded_model

\* C9: in every step of every sequence of is_model_present, load_model,
\* save_model and predict calls, a Loaded adapter keeps the very model it
\* has cached.
C9_LoadedIsOneWay ==
    [][Loaded => loaded_model' = loaded_model]_vars

C9_Witness ==
    /\ last.op = "predict"
    /\ last.status = "PredictError"
    /\ last.was_loaded \in Models
    /\ loaded_model = last.was_loaded
    /\ RemoteModel \in Models
    /\ RemoteModel # loaded_model

\* C10: nothing guards the check-then-set of predict(): when every thread
\* found the field None at its check and all have returned, each of them has
\* made its own load_model() call.
AllReturned == \A t \in Threads : pc[t] \in {"done", "failed"}

C10_EveryCheckerLoads ==
    (AllReturned /\ \A t \in Threads : tmp[t].saw_none) =>
        pLoads = Cardinality(Threads)

C10_Witness ==
    /\ \A t \in Threads : pc[t] = "done" /\ tmp[t].saw_none
    /\ pGets >= 2
    /\ pDeser >= 2
    /\ Loaded

====
